---- MODULE Spec2Model ----
(***************************************************************************)
(* Launch-time configuration resolution of awx/main/models/jobs.py:        *)
(* JobTemplate._accept_or_ignore_job_kwargs, the system-job variable       *)
(* merge, get_effective_slice_ct, create_unified_job, the relaunch of a    *)
(* job, the launch configuration recorded for it, the gate on a template's *)
(* active jobs, JobHostSummary.save and the fact-cache passes of a job.    *)
(***************************************************************************)
EXTENDS Integers, Sequences, FiniteSets, TLC

VARIABLES
    tmpl,       \* the template (JobTemplate or SystemJobTemplate) being launched
    req,        \* the launch request: the keyword arguments of the call
    reqVars,    \* the caller's extra_vars mapping object (a Python dict, passed by reference)
    results,    \* the (accepted, rejected, errors) results of the resolve calls made so far
    plan,       \* what create_unified_job has created: nothing yet, a job, or a workflow with slice nodes
    config,     \* a JobLaunchConfig: the prompts recorded for one launched job, and that job
    view,       \* what has been queried: nothing yet, or the value of one call on the launch config or the template
    jobs,       \* the Job rows: how many there are of each job template in each status
    settings,   \* the Django settings read by the gate
    launch,     \* the launch calls against the template: where each one is
    summary,    \* a JobHostSummary object
    facts       \* the hosts of a job with their fact files, and what a fact-cache pass did

vars == <<tmpl, req, reqVars, results, plan, config, view,
          jobs, settings, launch, summary, facts>>

----------------------------------------------------------------------------
(* Bounds of the enumerated inputs *)

\* the largest host count of an inventory
MaxHosts == 3
\* the largest job_slice_count of a template or a request
MaxSliceCount == 5

\* The launch calls that run against one template at the same time
MaxLaunchers == 2

\* The largest number of Job rows
MaxJobs == 12

\* The largest value of a counter of a JobHostSummary
MaxCount == 1

\* The largest number of hosts of a job whose facts are cached
MaxFactHosts == 2

\* getattr(settings, 'SCHEDULE_MAX_JOBS', 10): the ceiling when the setting
\* is not defined
DefaultScheduleMaxJobs == 10

----------------------------------------------------------------------------
(* Data *)

Min(a, b) == IF a <= b THEN a ELSE b

EmptyMap == [k \in {} |-> k]

Restrict(m, S) == [k \in S |-> m[k]]

\* The prompt fields of a job template (the keys of get_ask_mapping that the
\* resolution treats differently from one another).
Fields == {"limit", "forks", "scm_branch", "job_slice_count", "inventory",
           "credentials", "instance_groups", "extra_vars"}

ScalarFields == {"limit", "forks", "scm_branch", "job_slice_count", "inventory"}

\* None of a nullable foreign key (inventory, project)
NoneId == 0

\* Inventory i holds i - 1 hosts: inventory.hosts.count()
Inventories == 1..(MaxHosts + 1)

HostCount(inv) == inv - 1

\* Project service: scm_branch and allow_override of each project
Projects == {1, 2}

Project(p) == [scm_branch |-> "main", allow_override |-> (p = 2)]

\* Credential service: passwords_needed of each credential
Credentials == {1, 2}

PasswordsNeeded(c) == IF c = 1 THEN {"ssh_password"} ELSE {}

InstanceGroups == {1, 2}

InstanceGroupLists == {<<>>, <<1>>, <<1, 2>>, <<2, 1>>}

LimitValues == {"", "web*"}

ForksValues == {0, 5}

BranchValues == {"", "main", "dev"}

SliceCounts == 0..MaxSliceCount

\* The names a survey specification declares, when the survey is enabled
SurveyVars == {"a"}

\* Values a request can give the system-job variable `days`: a Python value
\* of type ty; numbers are n (+ 1/2 when half), strings carry their text.
PyVal(ty, n, half, text) == [ty |-> ty, n |-> n, half |-> half, text |-> text]

DaysValues ==
    {PyVal("int", 3, FALSE, ""), PyVal("int", 0, FALSE, ""), PyVal("int", -1, FALSE, ""),
     PyVal("float", 2, TRUE, ""), PyVal("float", 3, FALSE, ""),
     PyVal("str", 0, FALSE, "3"), PyVal("str", 0, FALSE, "2.5"), PyVal("str", 0, FALSE, "abc"),
     PyVal("bool", 1, FALSE, ""), PyVal("none", 0, FALSE, ""), PyVal("list", 0, FALSE, "")}

----------------------------------------------------------------------------
(* passwords_needed_to_start, resources_needed_to_start *)

\* The early return of line 194 taken for every template
passwords_needed_to_start_never(T) == {}

passwords_needed_to_start(T) ==
    UNION {PasswordsNeeded(c) : c \in T.credentials}

\* The list of line 326 built over ['project'] alone
resources_needed_to_start_project_only(T) ==
    SelectSeq(<<"project">>, LAMBDA fd : T[fd] = NoneId)

resources_needed_to_start(T) ==
    SelectSeq(<<"project", "inventory">>, LAMBDA fd : T[fd] = NoneId)

----------------------------------------------------------------------------
(* JobTemplate.get_effective_slice_ct *)

\* kwargs[f]: the value a request supplies for f, None represented by NoneId
\* for the inventory
KwInventory(kw) == IF "inventory" \in kw.none THEN NoneId ELSE kw.val.inventory

ActualInventory(T, kw) ==
    IF T.ask.inventory /\ "inventory" \in kw.supplied
    THEN KwInventory(kw)
    ELSE T.inventory

ActualSliceCount(T, kw) ==
    IF T.ask.job_slice_count /\ "job_slice_count" \in kw.supplied
    THEN kw.val.job_slice_count
    ELSE T.job_slice_count

get_effective_slice_ct_ignoring_hosts(T, kw) == ActualSliceCount(T, kw)

get_effective_slice_ct(T, kw) ==
    LET actual_inventory == ActualInventory(T, kw)
        actual_slice_count == ActualSliceCount(T, kw)
    IN  IF actual_inventory # NoneId
        THEN Min(actual_slice_count, HostCount(actual_inventory))
        ELSE actual_slice_count

----------------------------------------------------------------------------
(* The variable merge of a job template: accept_or_ignore_variables *)

accept_or_ignore_variables(T, data, exclude_errors) ==
    LET given == DOMAIN data
        accepted_names ==
            IF T.ask.extra_vars THEN given
            ELSE IF T.survey_enabled THEN given \cap SurveyVars
            ELSE {}
        rejected_names == given \ accepted_names
    IN  [accepted |-> Restrict(data, accepted_names),
         rejected |-> Restrict(data, rejected_names),
         errors   |-> IF rejected_names # {} /\ "prompts" \notin exclude_errors
                      THEN [k \in {"extra_vars"} |->
                               [msg |-> "Variables are not allowed on launch.", keys |-> rejected_names]]
                      ELSE EmptyMap]

----------------------------------------------------------------------------
(* JobTemplate._accept_or_ignore_job_kwargs *)

Skip == [tag |-> "skip"]

Accepted(v) == [tag |-> "accepted", value |-> v]

Rejected(v, e) == [tag |-> "rejected", value |-> v, error |-> e]

NoError == ""

\* The first test of the loop: the field is not in kwargs, is the variables
\* field, or is given as None
NotSuppliedNoNoneTest(kw, f) == f \notin kw.supplied \/ f = "extra_vars"

NotSupplied(kw, f) == f \notin kw.supplied \/ f = "extra_vars" \/ f \in kw.none

\* getattr(self, field_name); for credentials set(old_value.all())
OldValue(T, f) == T[f]

\* kwargs[field_name]; for credentials set(kwargs[field_name]) - old_value
NewValueNoSubtraction(T, kw, f) == kw.val[f]

NewValue(T, kw, f) ==
    IF f = "credentials" THEN kw.val.credentials \ T.credentials ELSE kw.val[f]

\* new_value == old_value. For instance_groups old_value is a QuerySet and
\* new_value a list: they compare by identity and are never equal.
PyEqNever(f, new, old) == FALSE

\* new_value == old_value comparing the members on every field
PyEqStructural(f, new, old) == new = old

PyEq(f, new, old) == IF f = "instance_groups" THEN FALSE ELSE new = old

\* The tests that end a pass with `continue` before the ask-flag is read
IsNoOp(T, kw, f) ==
    LET old == OldValue(T, f)
        new == NewValue(T, kw, f)
    IN  \/ f = "credentials" /\ new = {}
        \/ PyEq(f, new, old)
        \/ /\ f = "scm_branch"
           /\ old = ""
           /\ T.project # NoneId
           /\ new = Project(T.project).scm_branch

\* The prompted branch without the slice-count test of line 486
PromptedOutcomeNoSliceCheck(T, kw, f) ==
    LET new == NewValue(T, kw, f)
    IN  IF f = "scm_branch" THEN
            IF T.project = NoneId
            THEN Rejected(new, "Project is missing.")
            ELSE IF kw.val.scm_branch # Project(T.project).scm_branch
                    /\ ~Project(T.project).allow_override
            THEN Rejected(new, "Project does not allow override of branch.")
            ELSE Accepted(new)
        ELSE Accepted(new)

\* The prompted branch without the allow_override test of line 482
PromptedOutcomeNoOverrideCheck(T, kw, f) ==
    LET new == NewValue(T, kw, f)
    IN  IF f = "scm_branch" THEN
            IF T.project = NoneId
            THEN Rejected(new, "Project is missing.")
            ELSE Accepted(new)
        ELSE IF f = "job_slice_count" /\ new > 1 /\ get_effective_slice_ct(T, kw) <= 1
        THEN Rejected(new, "Job inventory does not have enough hosts for slicing")
        ELSE Accepted(new)

\* The branch taken when getattr(self, ask_field_name) is true
PromptedOutcome(T, kw, f) ==
    LET new == NewValue(T, kw, f)
    IN  IF f = "scm_branch" THEN
            IF T.project = NoneId
            THEN Rejected(new, "Project is missing.")
            ELSE IF kw.val.scm_branch # Project(T.project).scm_branch
                    /\ ~Project(T.project).allow_override
            THEN Rejected(new, "Project does not allow override of branch.")
            ELSE Accepted(new)
        ELSE IF f = "job_slice_count" /\ new > 1 /\ get_effective_slice_ct(T, kw) <= 1
        THEN Rejected(new, "Job inventory does not have enough hosts for slicing")
        ELSE Accepted(new)

\* The branch taken when the template is not configured to accept the field
UnpromptedOutcomeAlwaysError(T, kw, f) ==
    Rejected(NewValue(T, kw, f), "Field is not configured to prompt on launch.")

\* The unprompted branch letting the value through once 'prompts' errors
\* are suppressed
UnpromptedOutcomeAcceptsSuppressed(T, kw, f) ==
    IF "prompts" \in kw.exclude
    THEN Accepted(NewValue(T, kw, f))
    ELSE Rejected(NewValue(T, kw, f), "Field is not configured to prompt on launch.")

UnpromptedOutcome(T, kw, f) ==
    Rejected(NewValue(T, kw, f),
             IF "prompts" \notin kw.exclude
             THEN "Field is not configured to prompt on launch."
             ELSE NoError)

\* One pass of the loop over get_ask_mapping().items(), for field f
FieldOutcome(T, kw, f) ==
    IF NotSupplied(kw, f) THEN Skip
    ELSE IF IsNoOp(T, kw, f) THEN Skip
    ELSE IF T.ask[f] THEN PromptedOutcome(T, kw, f)
    ELSE UnpromptedOutcome(T, kw, f)

accept_or_ignore_job_kwargs(T, kw, data) ==
    LET merged == accept_or_ignore_variables(T, data, kw.exclude)
        loopFields == Fields \ {"extra_vars"}
        acc == {f \in loopFields : FieldOutcome(T, kw, f).tag = "accepted"}
        rej == {f \in loopFields : FieldOutcome(T, kw, f).tag = "rejected"}
        err == {f \in rej : FieldOutcome(T, kw, f).error # NoError}
        prompted_keys == acc \cup (IF DOMAIN merged.accepted # {} THEN {"extra_vars"} ELSE {})
        rejected_keys == rej \cup (IF DOMAIN merged.rejected # {} THEN {"extra_vars"} ELSE {})
        pw == "prompts" \notin kw.exclude /\ ~T.ask.credentials
              /\ passwords_needed_to_start(T) # {}
        needed_errors == SelectSeq(resources_needed_to_start(T),
                                   LAMBDA r : r \notin prompted_keys)
        error_keys == err \cup DOMAIN merged.errors
                      \cup (IF pw THEN {"passwords_needed_to_start"} ELSE {})
                      \cup (IF needed_errors # <<>> THEN {"resources_needed_to_start"} ELSE {})
    IN  [accepted |-> [k \in prompted_keys |->
                          IF k = "extra_vars" THEN merged.accepted
                          ELSE FieldOutcome(T, kw, k).value],
         rejected |-> [k \in rejected_keys |->
                          IF k = "extra_vars" THEN merged.rejected
                          ELSE FieldOutcome(T, kw, k).value],
         errors   |-> [k \in error_keys |->
                          IF k = "resources_needed_to_start" THEN needed_errors
                          ELSE IF k = "passwords_needed_to_start"
                          THEN "Saved launch configurations cannot provide passwords needed to start."
                          ELSE IF k = "extra_vars" THEN merged.errors[k]
                          ELSE FieldOutcome(T, kw, k).error],
         raised   |-> "none"]

----------------------------------------------------------------------------
(* SystemJobTemplate._accept_or_ignore_variables *)

\* float(x): a number, or the exception raised
PyFloat(v) ==
    CASE v.ty \in {"int", "float", "bool"} -> [exc |-> "none", n |-> v.n, half |-> v.half]
      [] v.ty = "str" ->
            IF v.text = "3" THEN [exc |-> "none", n |-> 3, half |-> FALSE]
            ELSE IF v.text = "2.5" THEN [exc |-> "none", n |-> 2, half |-> TRUE]
            ELSE [exc |-> "ValueError", n |-> 0, half |-> FALSE]
      [] OTHER -> [exc |-> "TypeError", n |-> 0, half |-> FALSE]

\* int(x): an integer (numbers truncate toward zero), or the exception raised
PyInt(v) ==
    CASE v.ty \in {"int", "float", "bool"} -> [exc |-> "none", n |-> v.n]
      [] v.ty = "str" ->
            IF v.text = "3" THEN [exc |-> "none", n |-> 3]
            ELSE [exc |-> "ValueError", n |-> 0]
      [] OTHER -> [exc |-> "TypeError", n |-> 0]

\* The try block on data['days']: "ok", or the exception it raises
DaysCheck(v) ==
    IF v.ty \in {"bool", "none"} THEN "ValueError"
    ELSE IF PyFloat(v).exc # "none" THEN PyFloat(v).exc
    ELSE IF PyInt(v).exc # "none" THEN PyInt(v).exc
    ELSE IF PyFloat(v).half \/ PyFloat(v).n # PyInt(v).n THEN "ValueError"
    ELSE IF PyInt(v).n < 0 THEN "ValueError"
    ELSE "ok"

AllowedVars == {"days", "older_than", "granularity"}

\* The dict `data` after the unallowed keys are popped from it
SysDataAfterUnallowed(data) == Restrict(data, DOMAIN data \cap AllowedVars)

\* The dict `data` after rejected['days'] = data.pop('days')
PopDaysKeepsKey(data) == data

PopDays(data) == Restrict(data, DOMAIN data \ {"days"})

\* Returns the result, and `data`: the caller's dict as the call leaves it
sys_accept_or_ignore_variables(T, data, errors) ==
    LET given_vars == DOMAIN data
        unallowed_vars == given_vars \ (AllowedVars \cap given_vars)
        data1 == SysDataAfterUnallowed(data)
        checked == T.job_type \in {"cleanup_jobs", "cleanup_activitystream"}
                   /\ "days" \in DOMAIN data1
        outcome == IF checked THEN DaysCheck(data1["days"]) ELSE "ok"
        bad_days == outcome = "ValueError"
        data2 == IF bad_days THEN PopDays(data1) ELSE data1
        rejected == Restrict(data, unallowed_vars \cup (IF bad_days THEN {"days"} ELSE {}))
        errors_list ==
            (IF unallowed_vars # {}
             THEN <<[msg |-> "Variables are not allowed for system jobs.", keys |-> unallowed_vars]>>
             ELSE <<>>)
            \o (IF bad_days
                THEN <<[msg |-> "days must be a positive integer.", keys |-> {"days"}]>>
                ELSE <<>>)
    IN  IF outcome \notin {"ok", "ValueError"}
        THEN [accepted |-> EmptyMap, rejected |-> EmptyMap, errors |-> EmptyMap,
              raised |-> outcome, data |-> data1]
        ELSE [accepted |-> data2, rejected |-> rejected,
              errors |-> IF errors_list # <<>>
                         THEN [k \in DOMAIN errors \cup {"extra_vars"} |->
                                  IF k = "extra_vars" THEN errors_list ELSE errors[k]]
                         ELSE errors,
              raised |-> "none", data |-> data2]

\* SystemJobTemplate._accept_or_ignore_job_kwargs. The request of a system
\* job supplies no field but extra_vars, so the base-class call on the
\* remaining keyword arguments returns three empty mappings.
sys_accept_or_ignore_job_kwargs(T, kw, data) ==
    LET merged == sys_accept_or_ignore_variables(T, data, EmptyMap)
    IN  [accepted |-> IF DOMAIN merged.accepted # {}
                      THEN [k \in {"extra_vars"} |-> merged.accepted] ELSE EmptyMap,
         rejected |-> IF DOMAIN merged.rejected # {}
                      THEN [k \in {"extra_vars"} |-> merged.rejected] ELSE EmptyMap,
         errors   |-> merged.errors,
         raised   |-> merged.raised,
         data     |-> merged.data]

----------------------------------------------------------------------------
(* Templates and launch requests *)

DefaultAsk == [f \in Fields |-> FALSE]

\* The field defaults of JobOptions and JobTemplate
DefaultTemplate ==
    [kind |-> "job", job_type |-> "run",
     limit |-> "", forks |-> 0, scm_branch |-> "", job_slice_count |-> 1,
     inventory |-> NoneId, project |-> NoneId,
     credentials |-> {}, instance_groups |-> <<>>,
     ask |-> DefaultAsk, survey_enabled |-> FALSE]

DefaultVal ==
    [limit |-> "", forks |-> 0, scm_branch |-> "", job_slice_count |-> 1,
     inventory |-> 1, credentials |-> {}, instance_groups |-> <<>>]

NoJob == [cls |-> "none", job_slice_count |-> 0, job_slice_number |-> 0, is_sliced_job |-> FALSE]

NoPlan == [job |-> NoJob, nodes |-> <<>>, slice_ct |-> 0]

\* A launch configuration that records no prompt, of a job that is no slice.
\* present: the scalar prompts and the inventory that are not None; pk: the
\* configuration is saved, so that its many-to-many prompts can be read
NoConfig ==
    [present |-> {}, val |-> DefaultVal, credentials |-> {}, instance_groups |-> <<>>,
     extra_vars |-> EmptyMap, survey_passwords |-> EmptyMap, pk |-> TRUE,
     job |-> [launch_type |-> "manual", job_slice_number |-> 0, job_slice_count |-> 1]]

NoView == [op |-> "none"]

\* The job templates that have Job rows: 1 is the template launched, 2 another
JobTemplateIds == {1, 2}

\* The statuses of a Job row that are told apart: the three the gate counts,
\* and one for a job that has finished
ActiveStatuses == {"pending", "waiting", "running"}

Statuses == ActiveStatuses \cup {"successful"}

\* No Job row at all
NoJobs == [k \in JobTemplateIds \X Statuses |-> 0]

\* Settings that do not define SCHEDULE_MAX_JOBS
NoSettings == [defined |-> {}, SCHEDULE_MAX_JOBS |-> 0]

\* The launch calls that can be in flight against the template
Launchers == 1..MaxLaunchers

\* No launch call in flight; peak is the largest number of calls that have
\* been in flight at the same time
NoLaunch == [pc |-> [c \in Launchers |-> "idle"], peak |-> 0]

\* The counters of a JobHostSummary
Counters == {"changed", "dark", "failures", "ignored", "ok", "processed", "rescued", "skipped"}

\* A JobHostSummary as its field defaults make it; saved: nothing was
\* assigned to it since its last save; written: the fields that save wrote
NoSummary ==
    [host |-> NoneId, host_name |-> "", count |-> [c \in Counters |-> 0],
     failed |-> FALSE, saved |-> FALSE, written |-> {}]

\* No fact-cache pass, no host. done: the hosts a pass wrote a file for or
\* took the facts of; saved: the hosts whose facts it stored in the
\* database; raised: the exception that ended it
NoFacts == [pass |-> "none", hosts |-> <<>>, done |-> {}, saved |-> {}, raised |-> "none"]

\* What a request does with a field: leaves it out, gives None, or gives a value of S
Choices(f, S) ==
    {<<"absent", DefaultVal[f]>>, <<"none", DefaultVal[f]>>} \cup {<<"value", v>> : v \in S}

\* The keyword arguments in which the fields of DOMAIN ch are as chosen and
\* every other field is left out; vars0 is the content of the extra_vars
\* mapping when the caller built the request
MkReq(ch, exclude, withVars) ==
    [supplied |-> {f \in DOMAIN ch : ch[f][1] # "absent"}
                  \cup (IF withVars THEN {"extra_vars"} ELSE {}),
     none     |-> {f \in DOMAIN ch : ch[f][1] = "none"},
     val      |-> [f \in DOMAIN DefaultVal |-> IF f \in DOMAIN ch THEN ch[f][2] ELSE DefaultVal[f]],
     exclude  |-> exclude,
     prevent_slicing |-> FALSE,
     eager    |-> EmptyMap,
     vars0    |-> EmptyMap]

\* A template with a project and an inventory, or without
BaseTemplates ==
    {[DefaultTemplate EXCEPT !.project = p, !.inventory = i] :
        p \in {NoneId} \cup Projects, i \in {NoneId} \cup Inventories}

ExcludeChoices == SUBSET {"prompts"}

\* limit and forks: the fields that follow the simple prompting rule
InitScalars(B, ex) ==
    \E tl \in LimitValues, al \in BOOLEAN, rl \in Choices("limit", LimitValues),
       tf \in ForksValues, af \in BOOLEAN, rf \in Choices("forks", ForksValues) :
        /\ tmpl = [B EXCEPT !.limit = tl, !.forks = tf,
                            !.ask = [DefaultAsk EXCEPT !.limit = al, !.forks = af]]
        /\ req = MkReq([f \in {"limit", "forks"} |-> IF f = "limit" THEN rl ELSE rf], ex, FALSE)
        /\ reqVars = EmptyMap

InitBranch(B, ex) ==
    \E tb \in {"", "dev"}, ab \in BOOLEAN, rb \in Choices("scm_branch", BranchValues) :
        /\ tmpl = [B EXCEPT !.scm_branch = tb, !.ask = [DefaultAsk EXCEPT !.scm_branch = ab]]
        /\ req = MkReq([f \in {"scm_branch"} |-> rb], ex, FALSE)
        /\ reqVars = EmptyMap

InitSliceFields(B, ex) ==
    \E ts \in SliceCounts, as \in BOOLEAN, rs \in Choices("job_slice_count", SliceCounts),
       ai \in BOOLEAN, ri \in Choices("inventory", Inventories) :
        /\ tmpl = [B EXCEPT !.job_slice_count = ts,
                            !.ask = [DefaultAsk EXCEPT !.job_slice_count = as, !.inventory = ai]]
        /\ req = MkReq([f \in {"job_slice_count", "inventory"} |->
                           IF f = "inventory" THEN ri ELSE rs], ex, FALSE)
        /\ reqVars = EmptyMap

InitCredentials(B, ex) ==
    \E tc \in SUBSET Credentials, ac \in BOOLEAN,
       rc \in Choices("credentials", SUBSET Credentials) :
        /\ tmpl = [B EXCEPT !.credentials = tc, !.ask = [DefaultAsk EXCEPT !.credentials = ac]]
        /\ req = MkReq([f \in {"credentials"} |-> rc], ex, FALSE)
        /\ reqVars = EmptyMap

InitInstanceGroups(B, ex) ==
    \E tg \in InstanceGroupLists, ag \in BOOLEAN,
       rg \in Choices("instance_groups", InstanceGroupLists) :
        /\ tmpl = [B EXCEPT !.instance_groups = tg,
                            !.ask = [DefaultAsk EXCEPT !.instance_groups = ag]]
        /\ req = MkReq([f \in {"instance_groups"} |-> rg], ex, FALSE)
        /\ reqVars = EmptyMap

InitVariables(B, ex) ==
    \E av \in BOOLEAN, se \in BOOLEAN, names \in SUBSET {"a", "b"}, al \in BOOLEAN,
       rl \in Choices("limit", LimitValues) :
        /\ tmpl = [B EXCEPT !.survey_enabled = se,
                            !.ask = [DefaultAsk EXCEPT !.extra_vars = av, !.limit = al]]
        /\ reqVars = [n \in names |-> 1]
        /\ req = [MkReq([f \in {"limit"} |-> rl], ex, TRUE) EXCEPT !.vars0 = reqVars]

SystemJobTypes == {"cleanup_jobs", "cleanup_activitystream", "cleanup_sessions"}

InitSystem(ex) ==
    \E jt \in SystemJobTypes, withDays \in BOOLEAN, d \in DaysValues,
       others \in SUBSET {"older_than", "foo", "bar"}, given \in BOOLEAN :
        /\ withDays \/ d = PyVal("int", 3, FALSE, "")
        /\ given \/ (~withDays /\ others = {})
        /\ tmpl = [DefaultTemplate EXCEPT !.kind = "system", !.job_type = jt]
        /\ reqVars = [n \in others \cup (IF withDays THEN {"days"} ELSE {}) |->
                         IF n = "days" THEN d ELSE PyVal("int", 1, FALSE, "")]
        /\ req = [MkReq(EmptyMap, ex, given) EXCEPT !.vars0 = reqVars]

InitResolve ==
    /\ results = <<>>
    /\ plan = NoPlan
    /\ jobs = NoJobs
    /\ settings = NoSettings
    /\ launch = NoLaunch
    /\ summary = NoSummary
    /\ facts = NoFacts
    /\ config = NoConfig
    /\ view = NoView
    /\ \E ex \in ExcludeChoices :
          \/ InitSystem(ex)
          \/ \E B \in BaseTemplates :
                \/ InitScalars(B, ex)
                \/ InitBranch(B, ex)
                \/ InitSliceFields(B, ex)
                \/ InitCredentials(B, ex)
                \/ InitInstanceGroups(B, ex)
                \/ InitVariables(B, ex)

----------------------------------------------------------------------------
(* The resolve calls *)

\* kwargs.get('extra_vars', {}): the caller's mapping, or a fresh empty one
VarsArg == IF "extra_vars" \in req.supplied THEN reqVars ELSE EmptyMap

\* A caller resolves the same request against the same template, at most twice
Resolve ==
    /\ tmpl.kind = "job"
    /\ Len(results) < 2
    /\ results' = Append(results, accept_or_ignore_job_kwargs(tmpl, req, VarsArg))
    /\ UNCHANGED <<tmpl, req, reqVars, plan, config, view, jobs, settings, launch, summary, facts>>

SysResolve ==
    /\ tmpl.kind = "system"
    /\ Len(results) < 2
    /\ LET r == sys_accept_or_ignore_job_kwargs(tmpl, req, VarsArg)
       IN  /\ results' = Append(results, [accepted |-> r.accepted, rejected |-> r.rejected,
                                           errors |-> r.errors, raised |-> r.raised])
           /\ reqVars' = IF "extra_vars" \in req.supplied THEN r.data ELSE reqVars
    /\ UNCHANGED <<tmpl, req, plan, config, view, jobs, settings, launch, summary, facts>>

NextResolve == Resolve \/ SysResolve

SpecResolve == InitResolve /\ [][NextResolve]_vars

----------------------------------------------------------------------------
(* JobTemplate.create_unified_job *)

\* dict[k] = v
SetKey(m, k, v) == [x \in DOMAIN m \cup {k} |-> IF x = k THEN v ELSE m[x]]

\* dict.setdefault(k, v)
SetDefault(m, k, v) == IF k \in DOMAIN m THEN m ELSE SetKey(m, k, v)

slice_event_ignoring_prevent(T, kw) == get_effective_slice_ct(T, kw) > 1

slice_event(T, kw) == get_effective_slice_ct(T, kw) > 1 /\ ~kw.prevent_slicing

\* kwargs['_eager_fields'] as the if / elif / elif leaves it
EagerFieldsNoForce(T, kw) ==
    IF slice_event(T, kw) THEN SetKey(kw.eager, "is_sliced_job", TRUE)
    ELSE IF kw.prevent_slicing THEN SetDefault(kw.eager, "job_slice_count", 1)
    ELSE kw.eager

\* The eager fields without the last elif (lines 397-399)
EagerFieldsNoDefault(T, kw) ==
    IF slice_event(T, kw) THEN SetKey(kw.eager, "is_sliced_job", TRUE)
    ELSE IF T.job_slice_count > 1 /\ ~kw.prevent_slicing
    THEN SetKey(kw.eager, "job_slice_count", 1)
    ELSE kw.eager

EagerFields(T, kw) ==
    IF slice_event(T, kw) THEN SetKey(kw.eager, "is_sliced_job", TRUE)
    ELSE IF T.job_slice_count > 1 /\ ~kw.prevent_slicing
    THEN SetKey(kw.eager, "job_slice_count", 1)
    ELSE IF kw.prevent_slicing THEN SetDefault(kw.eager, "job_slice_count", 1)
    ELSE kw.eager

\* The unified job the base class creates: the fields of its class copied
\* from the template, overridden by the keyword arguments, and then the
\* eager fields set on it
BaseCreateUnifiedJob(T, kw, cls, eager) ==
    LET copied ==
            [cls |-> cls,
             job_slice_count |->
                IF cls # "Job" THEN 0
                ELSE IF "job_slice_count" \in kw.supplied THEN kw.val.job_slice_count
                ELSE T.job_slice_count,
             job_slice_number |-> 0,
             is_sliced_job |-> FALSE]
    IN  [fd \in DOMAIN copied |-> IF fd \in DOMAIN eager THEN eager[fd] ELSE copied[fd]]

\* for idx in range(slice_ct): WorkflowJobNode.objects.create(... job_slice=idx + 1)
SliceNodesFromZero(slice_ct) == [idx \in 1..slice_ct |-> [job_slice |-> idx - 1]]

SliceNodes(slice_ct) == [idx \in 1..slice_ct |-> [job_slice |-> idx]]

create_unified_job(T, kw) ==
    LET slice_ct == get_effective_slice_ct(T, kw)
        sliced == slice_event(T, kw)
    IN  [job |-> BaseCreateUnifiedJob(T, kw, IF sliced THEN "WorkflowJob" ELSE "Job",
                                      EagerFields(T, kw)),
         nodes |-> IF sliced THEN SliceNodes(slice_ct) ELSE <<>>,
         slice_ct |-> slice_ct]

\* A launch is given a slice count and an inventory or leaves them out; a
\* caller that suppresses slicing (a relaunch) may pre-set the job's slice count
ValueChoices(f, S) == {<<"absent", DefaultVal[f]>>} \cup {<<"value", v>> : v \in S}

EagerChoices ==
    {EmptyMap} \cup {[k \in {"job_slice_count"} |-> n] : n \in {1, MaxSliceCount}}

InitSlice ==
    /\ results = <<>>
    /\ plan = NoPlan
    /\ jobs = NoJobs
    /\ settings = NoSettings
    /\ launch = NoLaunch
    /\ summary = NoSummary
    /\ facts = NoFacts
    /\ config = NoConfig
    /\ view = NoView
    /\ reqVars = EmptyMap
    /\ \E ts \in SliceCounts, as \in BOOLEAN, ti \in {NoneId} \cup Inventories, ai \in BOOLEAN,
          rs \in ValueChoices("job_slice_count", SliceCounts),
          ri \in ValueChoices("inventory", Inventories),
          ps \in BOOLEAN, eg \in EagerChoices :
          /\ eg = EmptyMap \/ ps
          /\ tmpl = [DefaultTemplate EXCEPT
                        !.job_slice_count = ts, !.inventory = ti, !.project = 1,
                        !.ask = [DefaultAsk EXCEPT !.job_slice_count = as, !.inventory = ai]]
          /\ req = [MkReq([f \in {"job_slice_count", "inventory"} |->
                             IF f = "inventory" THEN ri ELSE rs], {}, FALSE)
                      EXCEPT !.prevent_slicing = ps, !.eager = eg]

CreateUnifiedJob ==
    /\ plan = NoPlan
    /\ plan' = create_unified_job(tmpl, req)
    /\ UNCHANGED <<tmpl, req, reqVars, results, config, view, jobs, settings, launch, summary, facts>>

NextSlice == CreateUnifiedJob

SpecSlice == InitSlice /\ [][NextSlice]_vars

(***************************************************************************)
(* Relaunch: Job.copy_unified_job                                          *)
(***************************************************************************)

\* The slice positions a job can have run at: no slice, or slice k of N
SlicePositions ==
    {<<0, 1>>} \cup {pos \in (1..MaxSliceCount) \X (2..MaxSliceCount) : pos[1] <= pos[2]}

\* new_prompts without new_prompts['_prevent_slicing'] = True
RelaunchPromptsKeepSlicing(job, new_prompts) ==
    [new_prompts EXCEPT
        !.eager = SetKey(SetKey(new_prompts.eager,
                                "job_slice_number", job.job_slice_number),
                         "job_slice_count", job.job_slice_count)]

\* new_prompts as Job.copy_unified_job hands them to the base class
RelaunchPrompts(job, new_prompts) ==
    [new_prompts EXCEPT
        !.prevent_slicing = TRUE,
        !.eager = SetKey(SetKey(new_prompts.eager,
                                "job_slice_number", job.job_slice_number),
                         "job_slice_count", job.job_slice_count)]

\* The base class creates the copy from the job's template with the prompts
BaseCopyUnifiedJob(T, prompts) == create_unified_job(T, prompts)

copy_unified_job(T, job, new_prompts) ==
    BaseCopyUnifiedJob(T, RelaunchPrompts(job, new_prompts))

\* A job that ran at some slice position is relaunched on its template as
\* the template is now, with the prompts of the relaunch
InitRelaunch ==
    /\ results = <<>>
    /\ plan = NoPlan
    /\ jobs = NoJobs
    /\ settings = NoSettings
    /\ launch = NoLaunch
    /\ summary = NoSummary
    /\ facts = NoFacts
    /\ view = NoView
    /\ reqVars = EmptyMap
    /\ \E pos \in SlicePositions, lt \in {"manual", "callback"} :
          config = [NoConfig EXCEPT
                       !.job = [launch_type |-> lt,
                                job_slice_number |-> pos[1],
                                job_slice_count |-> pos[2]]]
    /\ \E ts \in SliceCounts, as \in BOOLEAN, ti \in {NoneId} \cup Inventories, ai \in BOOLEAN,
          rs \in ValueChoices("job_slice_count", SliceCounts),
          ri \in ValueChoices("inventory", Inventories) :
          /\ tmpl = [DefaultTemplate EXCEPT
                        !.job_slice_count = ts, !.inventory = ti, !.project = 1,
                        !.ask = [DefaultAsk EXCEPT !.job_slice_count = as, !.inventory = ai]]
          /\ req = MkReq([f \in {"job_slice_count", "inventory"} |->
                            IF f = "inventory" THEN ri ELSE rs], {}, FALSE)

CopyUnifiedJob ==
    /\ plan = NoPlan
    /\ plan' = copy_unified_job(tmpl, config.job, req)
    /\ UNCHANGED <<tmpl, req, reqVars, results, config, view, jobs, settings, launch, summary, facts>>

NextRelaunch == CopyUnifiedJob

SpecRelaunch == InitRelaunch /\ [][NextRelaunch]_vars

----------------------------------------------------------------------------
(* LaunchTimeConfig: prompts_dict, display_extra_vars *)

\* What survey_passwords stores for a password variable
Redacted == "$encrypted$"

\* The live values a password variable can hold in extra_data
Plaintexts == {"s1", "s2"}

\* display_extra_vars that returns self.extra_vars whatever survey_passwords is
display_extra_vars_raw(cfg) == cfg.extra_vars

display_extra_vars(cfg) ==
    IF DOMAIN cfg.survey_passwords # {}
    THEN [key \in DOMAIN cfg.extra_vars |->
             IF key \in DOMAIN cfg.survey_passwords
             THEN cfg.survey_passwords[key] ELSE cfg.extra_vars[key]]
    ELSE cfg.extra_vars

\* self.extra_vars after display_extra_vars: the keys are assigned in a
\* copy, so the stored mapping is as it was
ExtraVarsAfterDisplay(cfg) == cfg.extra_vars

\* The keys of prompts_dict: a many-to-many prompt of a saved configuration
\* that is not empty, extra_vars that are not empty, survey_passwords unless
\* for display, and every other prompt that is not None
PromptKeys(cfg, display) ==
    cfg.present
    \cup (IF cfg.pk /\ cfg.credentials # {} THEN {"credentials"} ELSE {})
    \cup (IF cfg.pk /\ cfg.instance_groups # <<>> THEN {"instance_groups"} ELSE {})
    \cup (IF DOMAIN cfg.extra_vars # {} THEN {"extra_vars"} ELSE {})
    \cup (IF DOMAIN cfg.survey_passwords # {} /\ ~display THEN {"survey_passwords"} ELSE {})

prompts_dict(cfg, display) ==
    [prompt_name \in PromptKeys(cfg, display) |->
        CASE prompt_name = "credentials" -> cfg.credentials
          [] prompt_name = "instance_groups" -> cfg.instance_groups
          [] prompt_name = "extra_vars" ->
                IF display THEN display_extra_vars(cfg) ELSE cfg.extra_vars
          [] prompt_name = "survey_passwords" -> cfg.survey_passwords
          [] OTHER -> cfg.val[prompt_name]]

\* The values a launch configuration records for the prompts it has
ConfigVal ==
    [DefaultVal EXCEPT !.limit = "web*", !.forks = 5, !.scm_branch = "dev",
                       !.job_slice_count = 2, !.inventory = 2]

\* The variables of a launch configuration: "a" is a plain variable, "pw"
\* a password variable; survey_passwords may also name a variable the
\* configuration does not hold ("ghost")
ConfigVars ==
    {v \in [{"a", "pw"} -> Plaintexts \cup {"x", "absent"}] :
        /\ v["a"] \in {"x", "absent"}
        /\ v["pw"] \in Plaintexts \cup {"absent"}}

VarsOf(v) == [k \in {n \in DOMAIN v : v[n] # "absent"} |-> v[k]]

InitDisplay ==
    /\ results = <<>>
    /\ plan = NoPlan
    /\ jobs = NoJobs
    /\ settings = NoSettings
    /\ launch = NoLaunch
    /\ summary = NoSummary
    /\ facts = NoFacts
    /\ view = NoView
    /\ reqVars = EmptyMap
    /\ tmpl = DefaultTemplate
    /\ req = MkReq(EmptyMap, {}, FALSE)
    /\ \E pr \in SUBSET {"limit"}, cr \in SUBSET {1}, saved \in BOOLEAN,
          v \in ConfigVars, sp \in SUBSET {"pw", "ghost"} :
          config = [NoConfig EXCEPT
                       !.present = pr, !.val = ConfigVal, !.credentials = cr, !.pk = saved,
                       !.extra_vars = VarsOf(v),
                       !.survey_passwords = [k \in sp |-> Redacted]]

DisplayExtraVars ==
    /\ view = NoView
    /\ view' = [op |-> "display_extra_vars", value |-> display_extra_vars(config)]
    /\ config' = [config EXCEPT !.extra_vars = ExtraVarsAfterDisplay(config)]
    /\ UNCHANGED <<tmpl, req, reqVars, results, plan, jobs, settings, launch, summary, facts>>

PromptsDict ==
    /\ view = NoView
    /\ \E display \in BOOLEAN :
          /\ view' = [op |-> IF display THEN "prompts_dict_display" ELSE "prompts_dict",
                      value |-> prompts_dict(config, display)]
          /\ config' = IF display /\ DOMAIN config.extra_vars # {}
                       THEN [config EXCEPT !.extra_vars = ExtraVarsAfterDisplay(config)]
                       ELSE config
    /\ UNCHANGED <<tmpl, req, reqVars, results, plan, jobs, settings, launch, summary, facts>>

NextDisplay == DisplayExtraVars \/ PromptsDict

SpecDisplay == InitDisplay /\ [][NextDisplay]_vars

----------------------------------------------------------------------------
(* JobLaunchConfig: has_user_prompts, has_unprompted *)

\* The exception for the limit applied whatever the launch type of the job
HasUserPromptsLimitAlwaysExempt(cfg, T, only_unprompted) ==
    LET prompts == prompts_dict(cfg, FALSE)
        survey == T.survey_enabled /\ ~T.ask.extra_vars
        ask_mapping == IF survey THEN Fields \ {"extra_vars"} ELSE Fields
        provided_vars == IF "extra_vars" \in DOMAIN prompts
                         THEN DOMAIN prompts["extra_vars"] ELSE {}
        survey_vars == SurveyVars
    IN  IF survey /\ (\/ provided_vars # {} /\ ~only_unprompted
                      \/ provided_vars \ survey_vars # {})
        THEN TRUE
        ELSE \E field_name \in ask_mapping :
                /\ field_name \in DOMAIN prompts
                /\ ~(T.ask[field_name] /\ only_unprompted)
                /\ field_name # "limit"

\* The loop without the exception for the limit of a callback job
HasUserPromptsNoExemption(cfg, T, only_unprompted) ==
    LET prompts == prompts_dict(cfg, FALSE)
        survey == T.survey_enabled /\ ~T.ask.extra_vars
        ask_mapping == IF survey THEN Fields \ {"extra_vars"} ELSE Fields
        provided_vars == IF "extra_vars" \in DOMAIN prompts
                         THEN DOMAIN prompts["extra_vars"] ELSE {}
        survey_vars == SurveyVars
    IN  IF survey /\ (\/ provided_vars # {} /\ ~only_unprompted
                      \/ provided_vars \ survey_vars # {})
        THEN TRUE
        ELSE \E field_name \in ask_mapping :
                /\ field_name \in DOMAIN prompts
                /\ ~(T.ask[field_name] /\ only_unprompted)

\* The exception for the limit of a callback job made only when every
\* prompt counts (only_unprompted false)
HasUserPromptsExemptOnlyAny(cfg, T, only_unprompted) ==
    LET prompts == prompts_dict(cfg, FALSE)
        survey == T.survey_enabled /\ ~T.ask.extra_vars
        ask_mapping == IF survey THEN Fields \ {"extra_vars"} ELSE Fields
        provided_vars == IF "extra_vars" \in DOMAIN prompts
                         THEN DOMAIN prompts["extra_vars"] ELSE {}
        survey_vars == SurveyVars
    IN  IF survey /\ (\/ provided_vars # {} /\ ~only_unprompted
                      \/ provided_vars \ survey_vars # {})
        THEN TRUE
        ELSE \E field_name \in ask_mapping :
                /\ field_name \in DOMAIN prompts
                /\ ~(T.ask[field_name] /\ only_unprompted)
                /\ ~(/\ field_name = "limit"
                     /\ cfg.job.launch_type = "callback"
                     /\ ~only_unprompted)

\* JobLaunchConfig._has_user_prompts: the survey branch, then the loop over
\* the ask mapping, which returns True at the first field that is in the
\* prompts and is not passed over, and False if there is none
HasUserPrompts(cfg, T, only_unprompted) ==
    LET prompts == prompts_dict(cfg, FALSE)
        survey == T.survey_enabled /\ ~T.ask.extra_vars
        ask_mapping == IF survey THEN Fields \ {"extra_vars"} ELSE Fields
        provided_vars == IF "extra_vars" \in DOMAIN prompts
                         THEN DOMAIN prompts["extra_vars"] ELSE {}
        survey_vars == SurveyVars
    IN  IF survey /\ (\/ provided_vars # {} /\ ~only_unprompted
                      \/ provided_vars \ survey_vars # {})
        THEN TRUE
        ELSE \E field_name \in ask_mapping :
                /\ field_name \in DOMAIN prompts
                /\ ~(T.ask[field_name] /\ only_unprompted)
                /\ ~(field_name = "limit" /\ cfg.job.launch_type = "callback")

has_user_prompts(cfg, T) == HasUserPrompts(cfg, T, FALSE)

has_unprompted(cfg, T) == HasUserPrompts(cfg, T, TRUE)

\* The launch configuration of a job, launched by hand or by a callback,
\* and the job's template as it is now
InitPrompts ==
    /\ results = <<>>
    /\ plan = NoPlan
    /\ jobs = NoJobs
    /\ settings = NoSettings
    /\ launch = NoLaunch
    /\ summary = NoSummary
    /\ facts = NoFacts
    /\ view = NoView
    /\ reqVars = EmptyMap
    /\ req = MkReq(EmptyMap, {}, FALSE)
    /\ \E pr \in SUBSET {"limit", "forks"}, cr \in SUBSET {1}, saved \in BOOLEAN,
          names \in SUBSET {"a", "b"}, sp \in SUBSET {"a"}, lt \in {"manual", "callback"} :
          config = [NoConfig EXCEPT
                       !.present = pr, !.val = ConfigVal, !.credentials = cr, !.pk = saved,
                       !.extra_vars = [n \in names |-> "x"],
                       !.survey_passwords = [k \in sp |-> Redacted],
                       !.job = [NoConfig.job EXCEPT !.launch_type = lt]]
    /\ \E al \in BOOLEAN, af \in BOOLEAN, ac \in BOOLEAN, av \in BOOLEAN, se \in BOOLEAN :
          tmpl = [DefaultTemplate EXCEPT
                     !.survey_enabled = se,
                     !.ask = [DefaultAsk EXCEPT !.limit = al, !.forks = af,
                                                !.credentials = ac, !.extra_vars = av]]

HasUnprompted ==
    /\ view = NoView
    /\ view' = [op |-> "has_unprompted", value |-> has_unprompted(config, tmpl)]
    /\ UNCHANGED <<tmpl, req, reqVars, results, plan, config, jobs, settings, launch, summary, facts>>

HasUserPromptsCall ==
    /\ view = NoView
    /\ view' = [op |-> "has_user_prompts", value |-> has_user_prompts(config, tmpl)]
    /\ UNCHANGED <<tmpl, req, reqVars, results, plan, config, jobs, settings, launch, summary, facts>>

NextPrompts == HasUnprompted \/ HasUserPromptsCall

SpecPrompts == InitPrompts /\ [][NextPrompts]_vars

----------------------------------------------------------------------------
(* JobTemplate.cache_timeout_blocked *)

\* The template whose gate is read
ThisTemplate == 1

\* The values SCHEDULE_MAX_JOBS is given when the settings define it
ConfiguredMaxJobs == {2}

ScheduleMaxJobs(st) ==
    IF "SCHEDULE_MAX_JOBS" \in st.defined THEN st.SCHEDULE_MAX_JOBS
    ELSE DefaultScheduleMaxJobs

\* Job.objects.filter(job_template=self, status__in=[...]).count()
ActiveCount(J, t) == J[<<t, "pending">>] + J[<<t, "waiting">>] + J[<<t, "running">>]

\* The gate counting the running jobs alone
cache_timeout_blocked_running_only(J, t, st) == J[<<t, "running">>] >= ScheduleMaxJobs(st)

\* The gate with > for >=
cache_timeout_blocked_above(J, t, st) == ActiveCount(J, t) > ScheduleMaxJobs(st)

cache_timeout_blocked(J, t, st) == ActiveCount(J, t) >= ScheduleMaxJobs(st)

TotalJobs(J) ==
    LET OfTemplate(t) == ActiveCount(J, t) + J[<<t, "successful">>]
    IN  OfTemplate(1) + OfTemplate(2)

InitGate ==
    /\ results = <<>>
    /\ plan = NoPlan
    /\ view = NoView
    /\ config = NoConfig
    /\ reqVars = EmptyMap
    /\ tmpl = DefaultTemplate
    /\ req = MkReq(EmptyMap, {}, FALSE)
    /\ launch = NoLaunch
    /\ summary = NoSummary
    /\ facts = NoFacts
    /\ jobs = NoJobs
    /\ \/ settings = NoSettings
       \/ \E n \in ConfiguredMaxJobs :
             settings = [defined |-> {"SCHEDULE_MAX_JOBS"}, SCHEDULE_MAX_JOBS |-> n]

\* A Job row of some template is created, in some status
CreateJob ==
    /\ view = NoView
    /\ TotalJobs(jobs) < MaxJobs
    /\ \E t \in JobTemplateIds, s \in Statuses :
          jobs' = [jobs EXCEPT ![<<t, s>>] = @ + 1]
    /\ UNCHANGED <<tmpl, req, reqVars, results, plan, config, view,
                   settings, launch, summary, facts>>

\* The status of a Job row is changed
SetStatus ==
    /\ view = NoView
    /\ \E t \in JobTemplateIds, s1 \in Statuses, s2 \in Statuses :
          /\ s1 # s2
          /\ jobs[<<t, s1>>] > 0
          /\ jobs' = [jobs EXCEPT ![<<t, s1>>] = @ - 1, ![<<t, s2>>] = @ + 1]
    /\ UNCHANGED <<tmpl, req, reqVars, results, plan, config, view,
                   settings, launch, summary, facts>>

\* The gate of the template is read
CacheTimeoutBlocked ==
    /\ view = NoView
    /\ view' = [op |-> "cache_timeout_blocked",
                value |-> cache_timeout_blocked(jobs, ThisTemplate, settings)]
    /\ UNCHANGED <<tmpl, req, reqVars, results, plan, config,
                   jobs, settings, launch, summary, facts>>

NextGate == CreateJob \/ SetStatus \/ CacheTimeoutBlocked

SpecGate == InitGate /\ [][NextGate]_vars

----------------------------------------------------------------------------
(* Launch calls that read the gate before they create a job *)

\* The launch calls in flight: those that read the gate as not blocked and
\* have not created their job yet
InFlight(pc) == {c \in Launchers : pc[c] = "admitted"}

InitLaunch ==
    /\ results = <<>>
    /\ plan = NoPlan
    /\ view = NoView
    /\ config = NoConfig
    /\ reqVars = EmptyMap
    /\ tmpl = DefaultTemplate
    /\ req = MkReq(EmptyMap, {}, FALSE)
    /\ launch = NoLaunch
    /\ summary = NoSummary
    /\ facts = NoFacts
    /\ jobs = NoJobs
    /\ \/ settings = NoSettings
       \/ \E n \in ConfiguredMaxJobs :
             settings = [defined |-> {"SCHEDULE_MAX_JOBS"}, SCHEDULE_MAX_JOBS |-> n]

\* A launch call reads the gate: blocked, it ends without a job; not
\* blocked, it goes on to create one
GateRead ==
    \E c \in Launchers :
        /\ launch.pc[c] = "idle"
        /\ LET pc == IF cache_timeout_blocked(jobs, ThisTemplate, settings)
                     THEN launch.pc
                     ELSE [launch.pc EXCEPT ![c] = "admitted"]
               n == Cardinality(InFlight(pc))
           IN  launch' = [pc |-> pc, peak |-> IF n > launch.peak THEN n ELSE launch.peak]
        /\ UNCHANGED <<tmpl, req, reqVars, results, plan, config, view,
                       jobs, settings, summary, facts>>

\* A launch call that read the gate as not blocked creates its job, pending
LaunchCreate ==
    \E c \in Launchers :
        /\ launch.pc[c] = "admitted"
        /\ TotalJobs(jobs) < MaxJobs
        /\ jobs' = [jobs EXCEPT ![<<ThisTemplate, "pending">>] = @ + 1]
        /\ launch' = [launch EXCEPT !.pc[c] = "idle"]
        /\ UNCHANGED <<tmpl, req, reqVars, results, plan, config, view,
                       settings, summary, facts>>

\* A job of the template moves on: pending, waiting, running, finished
Progress ==
    /\ \E s \in ActiveStatuses :
          LET next == CASE s = "pending" -> "waiting"
                        [] s = "waiting" -> "running"
                        [] OTHER -> "successful"
          IN  /\ jobs[<<ThisTemplate, s>>] > 0
              /\ jobs' = [jobs EXCEPT ![<<ThisTemplate, s>>] = @ - 1,
                                      ![<<ThisTemplate, next>>] = @ + 1]
    /\ UNCHANGED <<tmpl, req, reqVars, results, plan, config, view,
                   settings, launch, summary, facts>>

NextLaunch == GateRead \/ LaunchCreate \/ Progress

SpecLaunch == InitLaunch /\ [][NextLaunch]_vars

----------------------------------------------------------------------------
(* JobHostSummary.save *)

SummaryFields == Counters \cup {"host", "host_name", "failed"}

\* host.name
HostName(h) == "h1"

\* The update_fields keyword of save: not given, or a list of field names
UpdateFieldsChoices ==
    {[given |-> FALSE, fields |-> {}]}
    \cup {[given |-> TRUE, fields |-> F] : F \in {{}, {"ok"}, {"dark", "failures"}}}

\* save with self.failed = bool(self.dark)
save_dark_only(sm, update_fields) ==
    [sm EXCEPT
        !.host_name = IF sm.host # NoneId THEN HostName(sm.host) ELSE @,
        !.failed = (sm.count["dark"] # 0),
        !.saved = TRUE,
        !.written = IF update_fields.given THEN update_fields.fields \cup {"failed"}
                    ELSE SummaryFields]

\* JobHostSummary.save: host_name and failed are set on the object, 'failed'
\* is appended to update_fields, and the base class writes the fields of
\* update_fields if given and every field if not
save(sm, update_fields) ==
    [sm EXCEPT
        !.host_name = IF sm.host # NoneId THEN HostName(sm.host) ELSE @,
        !.failed = (sm.count["dark"] # 0 \/ sm.count["failures"] # 0),
        !.saved = TRUE,
        !.written = IF update_fields.given THEN update_fields.fields \cup {"failed"}
                    ELSE SummaryFields]

InitSummary ==
    /\ results = <<>>
    /\ plan = NoPlan
    /\ view = NoView
    /\ config = NoConfig
    /\ reqVars = EmptyMap
    /\ tmpl = DefaultTemplate
    /\ req = MkReq(EmptyMap, {}, FALSE)
    /\ jobs = NoJobs
    /\ settings = NoSettings
    /\ launch = NoLaunch
    /\ facts = NoFacts
    /\ summary = NoSummary

\* A counter of the summary is assigned
SetCounter ==
    /\ \E c \in Counters, v \in 0..MaxCount :
          summary' = [summary EXCEPT !.count[c] = v, !.saved = FALSE]
    /\ UNCHANGED <<tmpl, req, reqVars, results, plan, config, view,
                   jobs, settings, launch, facts>>

\* The host of the summary is assigned, or set to null
SetHost ==
    /\ \E h \in {NoneId, 1} :
          summary' = [summary EXCEPT !.host = h, !.saved = FALSE]
    /\ UNCHANGED <<tmpl, req, reqVars, results, plan, config, view,
                   jobs, settings, launch, facts>>

Save ==
    /\ \E update_fields \in UpdateFieldsChoices :
          summary' = save(summary, update_fields)
    /\ UNCHANGED <<tmpl, req, reqVars, results, plan, config, view,
                   jobs, settings, launch, facts>>

NextSummary == SetCounter \/ SetHost \/ Save

SpecSummary == InitSummary /\ [][NextSummary]_vars

----------------------------------------------------------------------------
(* Job.start_job_fact_cache, Job.finish_job_fact_cache *)

\* A host of the job and its file under the destination directory.
\* path: whether realpath(destination/host.name) stays under destination;
\* writable: whether the file can be opened for writing;
\* file: what the finish pass finds: no file, a file not modified since the
\* start pass, or a modified file that is read, not valid JSON, or cannot
\* be opened
FactHosts ==
    [path : {"inside", "escapes"}, writable : BOOLEAN,
     file : {"missing", "unmodified", "modified", "corrupt", "unreadable"}]

\* The loop of start_job_fact_cache from host i on: a host whose path
\* escapes is passed over, and so is one whose file raises IOError
RECURSIVE StartLoop(_, _, _)
StartLoop(hosts, i, st) ==
    IF i > Len(hosts) THEN st
    ELSE IF hosts[i].path = "escapes" THEN StartLoop(hosts, i + 1, st)
    ELSE IF ~hosts[i].writable THEN StartLoop(hosts, i + 1, st)
    ELSE StartLoop(hosts, i + 1, [st EXCEPT !.done = @ \cup {i}])

start_job_fact_cache(hosts) ==
    StartLoop(hosts, 1, [done |-> {}, to_update |-> {}, saved |-> {}, raised |-> "none"])

\* The loop of finish_job_fact_cache from host i on, and the bulk_update
\* that follows it. The open of a modified file is outside the try block:
\* the IOError of a file that cannot be opened ends the method.
RECURSIVE FinishLoop(_, _, _)
FinishLoop(hosts, i, st) ==
    IF i > Len(hosts) THEN [st EXCEPT !.saved = st.to_update]
    ELSE IF hosts[i].path = "escapes" THEN FinishLoop(hosts, i + 1, st)
    ELSE IF hosts[i].file = "missing"
    THEN FinishLoop(hosts, i + 1, [st EXCEPT !.done = @ \cup {i}, !.to_update = @ \cup {i}])
    ELSE IF hosts[i].file = "unmodified"
    THEN FinishLoop(hosts, i + 1, [st EXCEPT !.done = @ \cup {i}])
    ELSE IF hosts[i].file = "unreadable" THEN [st EXCEPT !.raised = "IOError"]
    ELSE IF hosts[i].file = "corrupt" THEN FinishLoop(hosts, i + 1, st)
    ELSE FinishLoop(hosts, i + 1, [st EXCEPT !.done = @ \cup {i}, !.to_update = @ \cup {i}])

finish_job_fact_cache(hosts) ==
    FinishLoop(hosts, 1, [done |-> {}, to_update |-> {}, saved |-> {}, raised |-> "none"])

InitFacts ==
    /\ results = <<>>
    /\ plan = NoPlan
    /\ view = NoView
    /\ config = NoConfig
    /\ reqVars = EmptyMap
    /\ tmpl = DefaultTemplate
    /\ req = MkReq(EmptyMap, {}, FALSE)
    /\ jobs = NoJobs
    /\ settings = NoSettings
    /\ launch = NoLaunch
    /\ summary = NoSummary
    /\ \E n \in 1..MaxFactHosts : \E hosts \in [1..n -> FactHosts] :
          facts = [NoFacts EXCEPT !.hosts = hosts]

StartJobFactCache ==
    /\ facts.pass = "none"
    /\ LET r == start_job_fact_cache(facts.hosts)
       IN  facts' = [facts EXCEPT !.pass = "start", !.done = r.done,
                                  !.saved = r.saved, !.raised = r.raised]
    /\ UNCHANGED <<tmpl, req, reqVars, results, plan, config, view,
                   jobs, settings, launch, summary>>

FinishJobFactCache ==
    /\ facts.pass = "none"
    /\ LET r == finish_job_fact_cache(facts.hosts)
       IN  facts' = [facts EXCEPT !.pass = "finish", !.done = r.done,
                                  !.saved = r.saved, !.raised = r.raised]
    /\ UNCHANGED <<tmpl, req, reqVars, results, plan, config, view,
                   jobs, settings, launch, summary>>

NextFacts == StartJobFactCache \/ FinishJobFactCache

SpecFacts == InitFacts /\ [][NextFacts]_vars

----------------------------------------------------------------------------
(* Properties of resolve *)

LoopFields == Fields \ {"extra_vars"}

\* The fields the request gives a value other than None
Given(f) == f \in req.supplied /\ f \notin req.none

InResult(r, f) == f \in DOMAIN r.accepted \cup DOMAIN r.rejected \cup DOMAIN r.errors

Calls == 1..Len(results)

\* C1: resolving the same request against the same template twice in
\* succession returns identical (accepted, rejected, errors) results.
C1_ResolveRepeatable ==
    Len(results) = 2 => results[1] = results[2]

\* C2: a non-variable field the request leaves out, or gives as None, is a
\* key of neither accepted, rejected nor errors.
C2_AbsentFieldNotInResult ==
    \A i \in Calls : \A f \in LoopFields :
        ~Given(f) => ~InResult(results[i], f)

\* C2 witness: a field given as None whose template value differs from the
\* default and whose ask-flag is true has been resolved.
C2_Witness ==
    /\ Len(results) >= 1
    /\ tmpl.kind = "job"
    /\ "limit" \in req.none
    /\ tmpl.limit = "web*"
    /\ "forks" \in DOMAIN results[1].accepted

\* C3: a scalar field requested with the template's current value is a
\* no-op, absent from accepted, rejected and errors, whatever its ask-flag.
C3_EqualValueIsNoOp ==
    \A i \in Calls : \A f \in ScalarFields :
        (tmpl.kind = "job" /\ Given(f) /\ req.val[f] = tmpl[f]) => ~InResult(results[i], f)

\* C3 witness: forks baseline 0, request forks=0, resolved with the ask-flag
\* false while another field of the request is rejected.
C3_Witness ==
    /\ Len(results) >= 1
    /\ tmpl.kind = "job"
    /\ Given("forks") /\ req.val.forks = 0 /\ tmpl.forks = 0
    /\ ~tmpl.ask.forks
    /\ "limit" \in DOMAIN results[1].rejected

\* The requested value differs from the template's
Differs(f) == req.val[f] # tmpl[f]

\* C4 as stated: ask-flag false and a differing value put the field in
\* rejected with the requested value, never in accepted, with an errors
\* entry exactly when 'prompts' errors are not suppressed.
C4_UnpromptedRejected_AsStated ==
    \A i \in Calls : \A f \in LoopFields :
        (tmpl.kind = "job" /\ Given(f) /\ ~tmpl.ask[f] /\ Differs(f)) =>
            /\ f \in DOMAIN results[i].rejected
            /\ results[i].rejected[f] = req.val[f]
            /\ f \notin DOMAIN results[i].accepted
            /\ (f \in DOMAIN results[i].errors <=> "prompts" \notin req.exclude)

\* The request's value for f is one the resolution does not skip: for the
\* credentials it adds a credential, for the branch it is not the linked
\* project's branch while the template's branch is empty.
NotSkippedValue(f) ==
    CASE f = "credentials" -> req.val.credentials \ tmpl.credentials # {}
      [] f = "scm_branch" ->
            /\ Differs(f)
            /\ ~(tmpl.scm_branch = "" /\ tmpl.project # NoneId
                  /\ req.val.scm_branch = Project(tmpl.project).scm_branch)
      [] OTHER -> Differs(f)

\* The value recorded for f: the requested value, for the credentials the
\* added credentials only
Candidate(f) ==
    IF f = "credentials" THEN req.val.credentials \ tmpl.credentials ELSE req.val[f]

\* C4 (amended): ask-flag false and a differing value that is not skipped
\* as a no-op put the field in rejected with the candidate value, never in
\* accepted, with an errors entry exactly when 'prompts' is not suppressed.
C4_UnpromptedRejected ==
    \A i \in Calls : \A f \in LoopFields :
        (tmpl.kind = "job" /\ Given(f) /\ ~tmpl.ask[f] /\ NotSkippedValue(f)) =>
            /\ f \in DOMAIN results[i].rejected
            /\ results[i].rejected[f] = Candidate(f)
            /\ f \notin DOMAIN results[i].accepted
            /\ (f \in DOMAIN results[i].errors <=> "prompts" \notin req.exclude)

\* C4 witness: ask_limit_on_launch false, limit "web*" against baseline "",
\* resolved without suppression: rejected and an error
C4_Witness ==
    /\ Len(results) >= 1
    /\ tmpl.kind = "job"
    /\ ~tmpl.ask.limit /\ tmpl.limit = "" /\ Given("limit") /\ req.val.limit = "web*"
    /\ req.exclude = {}
    /\ "limit" \in DOMAIN results[1].errors

\* C5 as stated: no key is in both accepted and rejected.
C5_AcceptedRejectedDisjoint_AsStated ==
    \A i \in Calls : DOMAIN results[i].accepted \cap DOMAIN results[i].rejected = {}

\* C5 (amended): no field other than extra_vars is a key of both accepted
\* and rejected, and when extra_vars is a key of both, no variable name is
\* in both accepted['extra_vars'] and rejected['extra_vars'].
C5_AcceptedRejectedDisjoint ==
    \A i \in Calls :
        LET both == DOMAIN results[i].accepted \cap DOMAIN results[i].rejected
        IN  /\ both \subseteq {"extra_vars"}
            /\ "extra_vars" \in both =>
                  DOMAIN results[i].accepted["extra_vars"]
                    \cap DOMAIN results[i].rejected["extra_vars"] = {}

\* C5 witness: a system job whose `days` fails the check while another
\* allowed variable is accepted
C5_Witness ==
    /\ Len(results) >= 1
    /\ tmpl.kind = "system"
    /\ "extra_vars" \in DOMAIN results[1].accepted
    /\ "extra_vars" \in DOMAIN results[1].rejected
    /\ "days" \in DOMAIN results[1].rejected["extra_vars"]

\* C6: the credentials are compared as sets and only additions count: an
\* empty delta is skipped, a non-empty delta is the value recorded, in
\* accepted or in rejected.
C6_CredentialDelta ==
    \A i \in Calls :
        (tmpl.kind = "job" /\ Given("credentials")) =>
            LET delta == req.val.credentials \ tmpl.credentials
                r == results[i]
            IN  IF delta = {}
                THEN ~InResult(r, "credentials")
                ELSE \/ /\ "credentials" \in DOMAIN r.accepted
                        /\ r.accepted["credentials"] = delta
                        /\ "credentials" \notin DOMAIN r.rejected
                     \/ /\ "credentials" \in DOMAIN r.rejected
                        /\ r.rejected["credentials"] = delta
                        /\ "credentials" \notin DOMAIN r.accepted

\* C6 witness: the request repeats an assigned credential and adds one
C6_Witness ==
    /\ Len(results) >= 1
    /\ tmpl.kind = "job"
    /\ Given("credentials")
    /\ tmpl.credentials = {1}
    /\ req.val.credentials = {1, 2}
    /\ "credentials" \in DOMAIN results[1].accepted

----------------------------------------------------------------------------
(* Properties of slicing *)

Created == plan.job.cls # "none"

\* The inventory and the slice count a launch resolves to
ResolvedInventory ==
    IF tmpl.ask.inventory /\ "inventory" \in req.supplied
    THEN req.val.inventory ELSE tmpl.inventory

RequestedSliceCount ==
    IF tmpl.ask.job_slice_count /\ "job_slice_count" \in req.supplied
    THEN req.val.job_slice_count ELSE tmpl.job_slice_count

\* C7: the effective slice count is min(requested slice count, host count)
\* when an inventory is resolved and the requested slice count otherwise;
\* it never exceeds the resolved inventory's host count and is never negative.
C7_EffectiveSliceCount ==
    Created =>
        /\ ResolvedInventory # NoneId =>
              /\ plan.slice_ct <= HostCount(ResolvedInventory)
              /\ plan.slice_ct <= RequestedSliceCount
              /\ plan.slice_ct \in {HostCount(ResolvedInventory), RequestedSliceCount}
        /\ ResolvedInventory = NoneId => plan.slice_ct = RequestedSliceCount
        /\ plan.slice_ct >= 0

\* C7 witness: a requested slice count of 5 against a requested inventory of 3 hosts
C7_Witness ==
    /\ Created
    /\ tmpl.ask.inventory /\ "inventory" \in req.supplied
    /\ HostCount(req.val.inventory) = 3
    /\ tmpl.inventory # req.val.inventory
    /\ RequestedSliceCount = 5
    /\ plan.slice_ct = 3

\* C8: an effective slice count N > 1 with slicing not suppressed produces
\* a parent workflow with exactly N slice nodes, created in order with the
\* slice indices 1, 2, ..., N.
C8_SliceNodes ==
    (Created /\ plan.slice_ct > 1 /\ ~req.prevent_slicing) =>
        /\ plan.job.cls = "WorkflowJob"
        /\ Len(plan.nodes) = plan.slice_ct
        /\ \A i \in 1..Len(plan.nodes) : plan.nodes[i].job_slice = i

\* C8 witness: 3 hosts and job_slice_count 5 give the slices 1, 2, 3
C8_Witness ==
    /\ Created
    /\ tmpl.inventory # NoneId /\ HostCount(tmpl.inventory) = 3
    /\ "inventory" \notin req.supplied
    /\ tmpl.job_slice_count = 5
    /\ tmpl.ask.job_slice_count /\ "job_slice_count" \in req.supplied
    /\ req.val.job_slice_count = 5
    /\ plan.nodes = <<[job_slice |-> 1], [job_slice |-> 2], [job_slice |-> 3]>>

\* C9: a parent workflow and slice nodes are produced only if the
\* effective slice count is greater than 1 and slicing is not suppressed;
\* otherwise one plain job is produced, and no workflow and no slice node.
C9_WorkflowOnlyWhenSliced ==
    Created =>
        /\ (plan.job.cls = "WorkflowJob" \/ plan.nodes # <<>>) =>
              (plan.slice_ct > 1 /\ ~req.prevent_slicing)
        /\ (plan.slice_ct <= 1 \/ req.prevent_slicing) =>
              (plan.job.cls = "Job" /\ plan.nodes = <<>> /\ ~plan.job.is_sliced_job)

\* C9 witness: slicing suppressed while the effective slice count is 3
C9_Witness ==
    /\ Created
    /\ req.prevent_slicing
    /\ plan.slice_ct = 3
    /\ plan.job.cls = "Job"

\* C10: an effective slice count of 1 or less with a template baseline
\* greater than 1 and slicing not suppressed produces a single non-sliced
\* job whose recorded slice count is 1.
C10_DegradesToSingleJob ==
    (Created /\ plan.slice_ct <= 1 /\ tmpl.job_slice_count > 1 /\ ~req.prevent_slicing) =>
        /\ plan.job.cls = "Job"
        /\ plan.nodes = <<>>
        /\ plan.job.job_slice_count = 1

\* C10 witness: baseline 5 against an inventory of one host
C10_Witness ==
    /\ Created
    /\ tmpl.job_slice_count = 5
    /\ ResolvedInventory # NoneId /\ HostCount(ResolvedInventory) = 1
    /\ "job_slice_count" \notin req.supplied
    /\ ~req.prevent_slicing
    /\ plan.job.cls = "Job"
    /\ plan.job.job_slice_count = 1

(***************************************************************************)
(* C11-C12: suppressed slicing and the relaunch of a slice                 *)
(***************************************************************************)
\* C11 as stated: when the caller suppresses slicing, the job that
\* create_unified_job produces has slice count 1, whatever the template,
\* the request and the slice count the caller pre-set in the eager fields
C11_PreventSlicingForcesOne_AsStated ==
    (Created /\ req.prevent_slicing) => plan.job.job_slice_count = 1

\* C11: when the caller suppresses slicing, create_unified_job produces a
\* single job and no slice node; the job's slice count is the one the caller
\* pre-set in the eager fields if there is one, and 1 otherwise, whatever
\* the template's slice count and the slice count and inventory requested
C11_PreventSlicingForcesOne ==
    (Created /\ req.prevent_slicing) =>
        /\ plan.job.cls = "Job"
        /\ plan.nodes = <<>>
        /\ plan.job.job_slice_count =
              IF "job_slice_count" \in DOMAIN req.eager
              THEN req.eager["job_slice_count"] ELSE 1

\* Slicing is suppressed with nothing pre-set on a template that would
\* otherwise have sliced the launch
C11_Witness ==
    /\ Created
    /\ req.prevent_slicing
    /\ req.eager = EmptyMap
    /\ tmpl.job_slice_count > 1
    /\ plan.slice_ct > 1
    /\ plan.job.job_slice_count = 1

\* C12: relaunching a job that ran as slice k of N produces a single job,
\* never a workflow and no slice node, whose slice number and slice count
\* are k and N, whatever the template's slice count and inventory are now
C12_RelaunchKeepsSlice ==
    Created =>
        /\ plan.job.cls = "Job"
        /\ plan.nodes = <<>>
        /\ plan.job.job_slice_number = config.job.job_slice_number
        /\ plan.job.job_slice_count = config.job.job_slice_count

\* Slice 2 of 3 is relaunched on a template that would now slice the launch
\* differently
C12_Witness ==
    /\ Created
    /\ config.job.job_slice_number = 2
    /\ config.job.job_slice_count = 3
    /\ plan.slice_ct > 1
    /\ plan.slice_ct # 3
    /\ plan.job.job_slice_number = 2
    /\ plan.job.job_slice_count = 3

(***************************************************************************)
(* C13-C16: errors of the resolve loop and of the checks that follow it    *)
(***************************************************************************)

\* The inventory the launch runs against: the requested one if the template
\* accepts an inventory on launch and the request has the key, else the
\* template's
LaunchInventory ==
    IF tmpl.ask.inventory /\ "inventory" \in req.supplied
    THEN (IF "inventory" \in req.none THEN NoneId ELSE req.val.inventory)
    ELSE tmpl.inventory

\* C13: with ask_job_slice_count_on_launch true and a requested slice count
\* greater than 1 that differs from the template's, the field is rejected
\* with 'Job inventory does not have enough hosts for slicing' exactly when
\* the effective slice count of the requested slice count and the launch's
\* inventory is 1 or less, and accepted otherwise.
C13_SliceCountNeedsHosts ==
    \A i \in Calls :
        (/\ tmpl.kind = "job"
         /\ tmpl.ask.job_slice_count
         /\ Given("job_slice_count")
         /\ req.val.job_slice_count > 1
         /\ req.val.job_slice_count # tmpl.job_slice_count) =>
            LET n == req.val.job_slice_count
                eff == IF LaunchInventory = NoneId THEN n
                       ELSE Min(n, HostCount(LaunchInventory))
                r == results[i]
            IN  IF eff <= 1
                THEN /\ "job_slice_count" \in DOMAIN r.rejected
                     /\ r.rejected["job_slice_count"] = n
                     /\ "job_slice_count" \notin DOMAIN r.accepted
                     /\ "job_slice_count" \in DOMAIN r.errors
                     /\ r.errors["job_slice_count"] =
                            "Job inventory does not have enough hosts for slicing"
                ELSE /\ "job_slice_count" \in DOMAIN r.accepted
                     /\ r.accepted["job_slice_count"] = n
                     /\ "job_slice_count" \notin DOMAIN r.rejected
                     /\ "job_slice_count" \notin DOMAIN r.errors

\* A slice count above 1 is requested with an inventory of one host or none
\* and is rejected for it
C13_Witness ==
    /\ Len(results) >= 1
    /\ tmpl.kind = "job"
    /\ tmpl.ask.job_slice_count
    /\ tmpl.ask.inventory
    /\ Given("job_slice_count")
    /\ req.val.job_slice_count > 1
    /\ Given("inventory")
    /\ HostCount(req.val.inventory) <= 1
    /\ tmpl.inventory # NoneId
    /\ HostCount(tmpl.inventory) > 1
    /\ "job_slice_count" \in DOMAIN results[1].errors

\* C14: with ask_scm_branch_on_launch true and a requested branch that is
\* not a no-op, the branch is rejected with 'Project is missing.' if the
\* template has no project, rejected with 'Project does not allow override
\* of branch.' if it differs from the project's branch and the project
\* disallows overrides, and accepted otherwise; a rejected branch is never
\* in accepted.
C14_BranchOverride ==
    \A i \in Calls :
        (/\ tmpl.kind = "job"
         /\ tmpl.ask.scm_branch
         /\ Given("scm_branch")
         /\ req.val.scm_branch # tmpl.scm_branch
         /\ ~(/\ tmpl.scm_branch = ""
              /\ tmpl.project # NoneId
              /\ req.val.scm_branch = Project(tmpl.project).scm_branch)) =>
            LET b == req.val.scm_branch
                r == results[i]
                rejectedWith(msg) ==
                    /\ "scm_branch" \in DOMAIN r.rejected
                    /\ r.rejected["scm_branch"] = b
                    /\ "scm_branch" \notin DOMAIN r.accepted
                    /\ "scm_branch" \in DOMAIN r.errors
                    /\ r.errors["scm_branch"] = msg
            IN  IF tmpl.project = NoneId
                THEN rejectedWith("Project is missing.")
                ELSE IF b # Project(tmpl.project).scm_branch
                        /\ ~Project(tmpl.project).allow_override
                THEN rejectedWith("Project does not allow override of branch.")
                ELSE /\ "scm_branch" \in DOMAIN r.accepted
                     /\ r.accepted["scm_branch"] = b
                     /\ "scm_branch" \notin DOMAIN r.rejected
                     /\ "scm_branch" \notin DOMAIN r.errors

\* A branch other than the project's is requested on a project that does
\* not allow overrides, and is rejected
C14_Witness ==
    /\ Len(results) >= 1
    /\ tmpl.kind = "job"
    /\ tmpl.ask.scm_branch
    /\ Given("scm_branch")
    /\ tmpl.project # NoneId
    /\ ~Project(tmpl.project).allow_override
    /\ req.val.scm_branch # Project(tmpl.project).scm_branch
    /\ "scm_branch" \in DOMAIN results[1].rejected
    /\ "scm_branch" \in DOMAIN results[1].errors

\* The template has a credential that needs a password to start
NeedsPassword == \E c \in tmpl.credentials : PasswordsNeeded(c) # {}

\* C15 as stated: for every request, when ask_credential_on_launch is false
\* and a linked credential needs a password, errors has
\* 'passwords_needed_to_start' and the result is not launchable
C15_PasswordsNeeded_AsStated ==
    \A i \in Calls :
        (tmpl.kind = "job" /\ ~tmpl.ask.credentials /\ NeedsPassword) =>
            "passwords_needed_to_start" \in DOMAIN results[i].errors

\* C15: for every request that does not suppress the 'prompts' error
\* category, when ask_credential_on_launch is false and a linked credential
\* needs a password, errors has 'passwords_needed_to_start', so the result
\* is not launchable
C15_PasswordsNeeded ==
    \A i \in Calls :
        (/\ tmpl.kind = "job"
         /\ ~tmpl.ask.credentials
         /\ NeedsPassword
         /\ "prompts" \notin req.exclude) =>
            /\ "passwords_needed_to_start" \in DOMAIN results[i].errors
            /\ results[i].errors["passwords_needed_to_start"] =
                  "Saved launch configurations cannot provide passwords needed to start."

\* A template with a project, an inventory and a password-protected
\* credential is launched with no prompt and the only error is the password's
C15_Witness ==
    /\ Len(results) >= 1
    /\ tmpl.kind = "job"
    /\ ~tmpl.ask.credentials
    /\ NeedsPassword
    /\ "prompts" \notin req.exclude
    /\ req.supplied = {}
    /\ DOMAIN results[1].errors = {"passwords_needed_to_start"}

\* The set of the elements of a sequence
Range(s) == {s[j] : j \in DOMAIN s}

\* C16: errors has 'resources_needed_to_start' exactly when a mandatory
\* resource (project, inventory) is missing on the template and is not a key
\* of accepted; the list has one entry for each such resource and none for
\* any other, whether or not the caller suppresses an error category.
C16_ResourcesNeeded ==
    \A i \in Calls :
        tmpl.kind = "job" =>
            LET r == results[i]
                missing == {fd \in {"project", "inventory"} : tmpl[fd] = NoneId}
                unmet == missing \ DOMAIN r.accepted
            IN  /\ ("resources_needed_to_start" \in DOMAIN r.errors) <=> (unmet # {})
                /\ "resources_needed_to_start" \in DOMAIN r.errors =>
                      /\ Range(r.errors["resources_needed_to_start"]) = unmet
                      /\ Len(r.errors["resources_needed_to_start"]) = Cardinality(unmet)

\* A template with neither project nor inventory is launched with an
\* inventory that is accepted and with 'prompts' errors suppressed: the
\* error lists the project alone
C16_Witness ==
    /\ Len(results) >= 1
    /\ tmpl.kind = "job"
    /\ tmpl.project = NoneId
    /\ tmpl.inventory = NoneId
    /\ "prompts" \in req.exclude
    /\ "inventory" \in DOMAIN results[1].accepted
    /\ "resources_needed_to_start" \in DOMAIN results[1].errors
    /\ results[1].errors["resources_needed_to_start"] = <<"project">>

(***************************************************************************)
(* C17-C18: the variables of a system job                                  *)
(***************************************************************************)

\* The variables the request supplies, as the caller built them
SuppliedVars == IF "extra_vars" \in req.supplied THEN req.vars0 ELSE EmptyMap

AcceptedVars(r) ==
    IF "extra_vars" \in DOMAIN r.accepted THEN r.accepted["extra_vars"] ELSE EmptyMap

RejectedVars(r) ==
    IF "extra_vars" \in DOMAIN r.rejected THEN r.rejected["extra_vars"] ELSE EmptyMap

\* The entries of errors['extra_vars'] that carry the message msg
VarErrors(r, msg) ==
    IF "extra_vars" \in DOMAIN r.errors
    THEN {j \in DOMAIN r.errors["extra_vars"] : r.errors["extra_vars"][j].msg = msg}
    ELSE {}

\* C17: for a system job every supplied variable outside the allow-list
\* (days, older_than, granularity) is in rejected with its value, with one
\* error under errors['extra_vars'] that lists these names; every supplied
\* variable inside the allow-list other than a `days` that fails its check
\* is in accepted with its value; no name is in both.
C17_SystemAllowList ==
    (Len(results) >= 1 /\ tmpl.kind = "system") =>
        LET r == results[1]
            outside == DOMAIN SuppliedVars \ AllowedVars
            inside == DOMAIN SuppliedVars \cap AllowedVars
            listing == VarErrors(r, "Variables are not allowed for system jobs.")
        IN  /\ \A k \in outside :
                  /\ k \in DOMAIN RejectedVars(r)
                  /\ RejectedVars(r)[k] = SuppliedVars[k]
            /\ outside # {} =>
                  /\ Cardinality(listing) = 1
                  /\ \A j \in listing : r.errors["extra_vars"][j].keys = outside
            /\ outside = {} => listing = {}
            /\ \A k \in inside :
                  \/ /\ k \in DOMAIN AcceptedVars(r)
                     /\ AcceptedVars(r)[k] = SuppliedVars[k]
                  \/ /\ k = "days"
                     /\ k \in DOMAIN RejectedVars(r)
            /\ DOMAIN AcceptedVars(r) \cap DOMAIN RejectedVars(r) = {}
            /\ DOMAIN AcceptedVars(r) \subseteq AllowedVars

\* A value of days that is a non-negative integer: an int, a float without
\* a fractional part or the text of an integer, zero or more
IsNonNegativeInteger(v) ==
    \/ v.ty = "int" /\ v.n >= 0
    \/ v.ty = "float" /\ ~v.half /\ v.n >= 0
    \/ v.ty = "str" /\ v.text = "3"

\* C18: for cleanup_jobs and cleanup_activitystream a supplied `days` is
\* accepted only if it is a non-negative integer and neither a boolean nor
\* null; every other value ("abc", negative, non-integral, true, null, a
\* list) is returned, not raised: rejected['days'] holds it and
\* errors['extra_vars'] has 'days must be a positive integer.'
C18_DaysReportedAsValue ==
    (/\ Len(results) >= 1
     /\ tmpl.kind = "system"
     /\ tmpl.job_type \in {"cleanup_jobs", "cleanup_activitystream"}
     /\ "days" \in DOMAIN SuppliedVars) =>
        LET r == results[1]
            d == SuppliedVars["days"]
        IN  /\ "days" \in DOMAIN AcceptedVars(r) => IsNonNegativeInteger(d)
            /\ ~IsNonNegativeInteger(d) =>
                  /\ r.raised = "none"
                  /\ "days" \in DOMAIN RejectedVars(r)
                  /\ RejectedVars(r)["days"] = d
                  /\ VarErrors(r, "days must be a positive integer.") # {}

(***************************************************************************)
(* C19-C20: the launch configuration of a job                              *)
(***************************************************************************)

\* The variables shown by the call of which view holds the value; no
\* variable if a prompts dictionary has no extra_vars
ShownVars ==
    IF view.op = "display_extra_vars" THEN view.value
    ELSE IF "extra_vars" \in DOMAIN view.value THEN view.value["extra_vars"]
    ELSE EmptyMap

Displayed == view.op \in {"display_extra_vars", "prompts_dict_display"}

\* The launch configurations that differ from cfg at most in the live
\* values of the password variables
SamePublicPart(cfg) ==
    {[cfg EXCEPT !.extra_vars =
          [k \in DOMAIN cfg.extra_vars |->
              IF k \in DOMAIN cfg.survey_passwords THEN p[k] ELSE cfg.extra_vars[k]]] :
        p \in [DOMAIN cfg.survey_passwords -> Plaintexts]}

\* The value of the display call of view.op on the launch configuration cfg
DisplayOf(cfg) ==
    IF view.op = "display_extra_vars" THEN display_extra_vars(cfg)
    ELSE prompts_dict(cfg, TRUE)

\* What is displayed holds the stored redacted value for every password
\* variable, and is the same for every live value of these variables
C19_Redacted ==
    Displayed =>
        /\ \A key \in DOMAIN config.survey_passwords \cap DOMAIN ShownVars :
              ShownVars[key] = config.survey_passwords[key]
        /\ \A other \in SamePublicPart(config) : DisplayOf(other) = view.value

\* A step that displays leaves the launch configuration as it was
C19_StoredUnchanged ==
    (view'.op \in {"display_extra_vars", "prompts_dict_display"}) => config' = config

\* C19: displaying a launch configuration (display_extra_vars, and
\* prompts_dict with display=True) shows, for every variable named in
\* survey_passwords, the value stored there and not the live value; two
\* configurations that differ only in the live values of password
\* variables display identically; and the stored variables are unchanged.
C19_DisplayHidesPasswords == []C19_Redacted /\ [][C19_StoredUnchanged]_vars

\* A configuration that holds a live password besides a plain variable has
\* been displayed
C19_Witness ==
    /\ Displayed
    /\ "pw" \in DOMAIN config.survey_passwords
    /\ "pw" \in DOMAIN config.extra_vars
    /\ config.extra_vars["pw"] \in Plaintexts
    /\ "a" \in DOMAIN config.extra_vars
    /\ ShownVars["pw"] = Redacted
    /\ ShownVars["a"] = config.extra_vars["a"]

\* The prompts of the launch configuration that have an ask-flag
PresentFields == PromptKeys(config, FALSE) \cap Fields

\* The limit of a job that a callback launched
ExemptLimit(f) == f = "limit" /\ config.job.launch_type = "callback"

\* C20 as stated: the launch configuration is fully prompted (has_unprompted
\* is false) only if every field in its prompts dictionary has its ask-flag
\* true on the template, the limit of a callback job excepted
C20_FullyPrompted_AsStated ==
    (view.op = "has_unprompted" /\ ~view.value) =>
        \A f \in PresentFields : tmpl.ask[f] \/ ExemptLimit(f)

\* C20: the launch configuration is fully prompted (has_unprompted is
\* false) only if every field in its prompts dictionary other than
\* extra_vars has its ask-flag true on the template, the limit of a callback
\* job excepted, and extra_vars, if present, either has its ask-flag true
\* or holds only variables of the survey of a template whose survey is
\* enabled.
C20_FullyPrompted ==
    (view.op = "has_unprompted" /\ ~view.value) =>
        /\ \A f \in PresentFields \ {"extra_vars"} : tmpl.ask[f] \/ ExemptLimit(f)
        /\ "extra_vars" \in PresentFields =>
              \/ tmpl.ask.extra_vars
              \/ tmpl.survey_enabled /\ DOMAIN config.extra_vars \subseteq SurveyVars

\* A callback job's configuration holds a limit the template no longer asks
\* for and forks it still asks for, and is found fully prompted
C20_Witness ==
    /\ view.op = "has_unprompted"
    /\ ~view.value
    /\ config.job.launch_type = "callback"
    /\ {"limit", "forks"} \subseteq PresentFields
    /\ ~tmpl.ask.limit
    /\ tmpl.ask.forks

(***************************************************************************)
(* C21, C28: has_user_prompts                                              *)
(***************************************************************************)

\* C21 as stated: has_user_prompts is true when the prompts dictionary of
\* the launch configuration is not empty and false when it is empty, for
\* every template and launch type
C21_AnyPrompt_AsStated ==
    view.op = "has_user_prompts" =>
        (view.value <=> PromptKeys(config, FALSE) # {})

\* C21: has_user_prompts is true exactly when the prompts dictionary of the
\* launch configuration holds a field of the ask mapping other than the
\* limit of a job that a callback launched; survey_passwords, which is no
\* field of the ask mapping, does not count.
C21_AnyPrompt ==
    view.op = "has_user_prompts" =>
        (view.value <=> \E f \in PresentFields : ~ExemptLimit(f))

\* The configuration of a callback job holds a limit and nothing else, and
\* is found to have no user prompt
C21_Witness ==
    /\ view.op = "has_user_prompts"
    /\ config.job.launch_type = "callback"
    /\ PromptKeys(config, FALSE) = {"limit"}
    /\ ~view.value

\* C28: for every launch configuration and template, has_unprompted implies
\* has_user_prompts, in the survey branch and under the exception for the
\* limit of a callback job as well.
C28_UnpromptedImpliesPrompted ==
    /\ (view.op = "has_unprompted" /\ view.value) => has_user_prompts(config, tmpl)
    /\ (view.op = "has_user_prompts" /\ ~view.value) => ~has_unprompted(config, tmpl)

\* has_unprompted is true through the survey branch alone: the template's
\* survey is enabled, it asks for every field the configuration holds, and
\* a variable outside the survey is recorded
C28_Witness ==
    /\ view.op = "has_unprompted"
    /\ view.value
    /\ tmpl.survey_enabled
    /\ ~tmpl.ask.extra_vars
    /\ "b" \in DOMAIN config.extra_vars
    /\ \A f \in PresentFields \ {"extra_vars"} : tmpl.ask[f]

(***************************************************************************)
(* C22-C23: the gate on a template's active jobs                           *)
(***************************************************************************)

\* The ceiling of the gate: the setting if it is defined, and 10 if not
Ceiling ==
    IF "SCHEDULE_MAX_JOBS" \in settings.defined
    THEN settings.SCHEDULE_MAX_JOBS ELSE DefaultScheduleMaxJobs

\* The jobs of the template that are pending, waiting or running
Active ==
    jobs[<<ThisTemplate, "pending">>] + jobs[<<ThisTemplate, "waiting">>]
        + jobs[<<ThisTemplate, "running">>]

\* C22: after any sequence of job creations and status changes,
\* cache_timeout_blocked is true exactly when the template has at least the
\* ceiling's number (SCHEDULE_MAX_JOBS, 10 by default) of jobs in status
\* pending, waiting or running; jobs in another status and jobs of another
\* template are not counted.
C22_GateCountsActiveJobs ==
    view.op = "cache_timeout_blocked" => (view.value <=> Active >= Ceiling)

\* The gate is read as blocked at exactly ten active jobs under the default
\* ceiling, with a finished job of the template and a running job of
\* another template besides
C22_Witness ==
    /\ view.op = "cache_timeout_blocked"
    /\ view.value
    /\ settings = NoSettings
    /\ Active = DefaultScheduleMaxJobs
    /\ jobs[<<ThisTemplate, "successful">>] > 0
    /\ jobs[<<2, "running">>] > 0

\* C23: with launch calls that each read the gate and create a job only if
\* it was not blocked, the active jobs of the template exceed the ceiling by
\* no more than the number of launch calls that were in flight at the same
\* time, and do not exceed it at all as long as the calls ran one at a time.
C23_OvershootBounded ==
    /\ Active <= Ceiling + launch.peak
    /\ launch.peak <= 1 => Active <= Ceiling

\* Every launch call was in flight at once and the active jobs exceed the
\* default ceiling
C23_Witness ==
    /\ settings = NoSettings
    /\ launch.peak = MaxLaunchers
    /\ Active > Ceiling

(***************************************************************************)
(* C24: JobHostSummary.save                                                *)
(***************************************************************************)

\* C24: after every save of a JobHostSummary, whatever was assigned to its
\* counters before, the failed flag that is written equals (dark > 0 or
\* failures > 0); ok, changed, skipped, processed, rescued and ignored have
\* no part in it.
C24_FailedDerived ==
    summary.saved =>
        /\ summary.failed <=> (summary.count["dark"] > 0 \/ summary.count["failures"] > 0)
        /\ "failed" \in summary.written

\* A summary with every counter but dark and failures above zero is saved
\* as not failed
C24_Witness ==
    /\ summary.saved
    /\ ~summary.failed
    /\ \A c \in Counters \ {"dark", "failures"} : summary.count[c] > 0

(***************************************************************************)
(* C25: the fact-cache passes                                              *)
(***************************************************************************)

\* Host i fails in the pass: its path escapes the destination, its file
\* cannot be written (start), or cannot be opened or parsed (finish)
HostFails(i) ==
    \/ facts.hosts[i].path = "escapes"
    \/ facts.pass = "start" /\ ~facts.hosts[i].writable
    \/ facts.pass = "finish" /\ facts.hosts[i].file \in {"corrupt", "unreadable"}

\* The hosts whose facts the finish pass has to store: those whose file is
\* gone or was modified
DueUpdate(i) == facts.hosts[i].file \in {"missing", "modified"}

\* C25: in both fact-cache passes the failure of one host (a path that
\* escapes the destination, a file that cannot be written, a file that
\* cannot be read or parsed) skips that host alone: the pass does not
\* abort, and every other host is processed.
C25_HostFailureSkipsOnlyHost ==
    facts.pass # "none" =>
        /\ facts.raised = "none"
        /\ \A i \in DOMAIN facts.hosts :
              ~HostFails(i) =>
                  /\ i \in facts.done
                  /\ (facts.pass = "finish" /\ DueUpdate(i)) => i \in facts.saved

(***************************************************************************)
(* C26, C27: the resolve loop                                              *)
(***************************************************************************)

\* C26: for instance_groups an omitted field is skipped, whereas a
\* supplied empty list is never skipped: it is in accepted when the
\* ask-flag is true and in rejected when it is false, also when the
\* template has no instance groups.
C26_EmptyListIsNotOmitted ==
    \A i \in Calls :
        tmpl.kind = "job" =>
            /\ "instance_groups" \notin req.supplied =>
                  ~InResult(results[i], "instance_groups")
            /\ (Given("instance_groups") /\ req.val.instance_groups = <<>>) =>
                  IF tmpl.ask.instance_groups
                  THEN /\ "instance_groups" \in DOMAIN results[i].accepted
                       /\ results[i].accepted.instance_groups = <<>>
                       /\ "instance_groups" \notin DOMAIN results[i].rejected
                  ELSE /\ "instance_groups" \in DOMAIN results[i].rejected
                       /\ results[i].rejected.instance_groups = <<>>
                       /\ "instance_groups" \notin DOMAIN results[i].accepted

\* C26 witness: the template has no instance groups, the request supplies
\* the empty list, the ask-flag is true and the empty list is accepted.
C26_Witness ==
    /\ Len(results) >= 1
    /\ tmpl.kind = "job"
    /\ tmpl.instance_groups = <<>>
    /\ tmpl.ask.instance_groups
    /\ Given("instance_groups") /\ req.val.instance_groups = <<>>
    /\ "instance_groups" \in DOMAIN results[1].accepted

\* C27: every non-variable field in accepted has its ask-flag true, a
\* field whose ask-flag is false is never accepted, also when 'prompts'
\* errors are suppressed, and every field-named key of errors is a key of
\* rejected.
C27_AcceptedOnlyIfAsked ==
    \A i \in Calls :
        tmpl.kind = "job" =>
            /\ \A f \in LoopFields :
                  f \in DOMAIN results[i].accepted => tmpl.ask[f]
            /\ \A f \in Fields :
                  f \in DOMAIN results[i].errors => f \in DOMAIN results[i].rejected

\* C27 witness: 'prompts' errors are suppressed, a field whose ask-flag is
\* false is rejected without an error while another field, whose ask-flag
\* is true, is accepted.
C27_Witness ==
    /\ Len(results) >= 1
    /\ tmpl.kind = "job"
    /\ "prompts" \in req.exclude
    /\ \E f \in LoopFields :
          /\ ~tmpl.ask[f]
          /\ f \in DOMAIN results[1].rejected
          /\ f \notin DOMAIN results[1].errors
    /\ \E f \in LoopFields : f \in DOMAIN results[1].accepted

====
